---------------------------- MODULE Spec2Model ----------------------------
(***************************************************************************)
(* The Ant System engine of ecrs (src/src/aco/ants_system.rs): AntSystem's *)
(* run / iterate / update_best / find_best / grade / run_ants and the free *)
(* function run_ant, as a state machine; and the selection operators      *)
(* RouletteWheel and StochasticUniversalSampling of the genetic algorithm  *)
(* (src/src/ga/operators/selection.rs).                                    *)
(*                                                                         *)
(* Representation.  A matrix (FMatrix = DMatrix<f64>) is a sequence of     *)
(* rows; the code's node k (0-based) is node k+1 here.  Matrix entries are *)
(* integers.  A Solution's cost is kept in HALVES (cost c stands for the   *)
(* f64 value c/2), so that the division by 2.0 of grade_one is exact.  The *)
(* random threshold r of run_ant is kept in halves too (r2 stands for the  *)
(* f64 value r2/2): with integer weights, the multiples of 1/2 in [0, sum) *)
(* reach every outcome of the roulette scan that a real r in [0, sum) can  *)
(* reach.  This arithmetic is exact.  The rounding of f64 is modelled for   *)
(* run_ant alone (SpecAntF64), on values next to 0 and 1.                  *)
(***************************************************************************)
EXTENDS Integers, Sequences, FiniteSets, TLC

VARIABLES
  cfg,        \* AntSystem.cfg: iteration, ants_num, alpha, beta, evaporation_rate, weights, heuristic
  pheromone,  \* AntSystem.pheromone
  best_sol,   \* AntSystem.best_sol: [matrix, cost]
  pc,         \* position of the (single) thread inside run / iterate / run_ant
  i,          \* loop variable of run
  prob,       \* local `prob` of run_ants
  ant,        \* locals of the run_ant call in progress (sol, unvisited, first, last); after its
              \* return, how it ended (state), what it returned on the regular exit (sol), and
              \* its number of passes
  sols_m,     \* local `sols_m`: the matrices returned by run_ant so far in this iteration
  sols,       \* local `sols` of iterate: the graded solutions
  best,       \* local `best` of iterate
  probe,      \* the calls received by cfg.probe, in order (name and index argument)
  probe_arg,  \* the reference arguments of the probe calls of the current iteration
  diag,       \* number of "Could not find a solution" lines printed in the current iteration
  strategy,   \* cfg.pheromone_update: number of calls, and the arguments of this iteration's call
  initial,    \* pheromone and best_sol as constructed (never written after Init)
  sel         \* ga::operators::selection: the arguments and locals of one call of apply

vars == <<cfg, pheromone, best_sol, pc, i, prob, ant, sols_m, sols, best,
          probe, probe_arg, diag, strategy, initial, sel>>

(***************************************************************************)
(* Bounds of the model.                                                    *)
(***************************************************************************)
MaxN == 3        \* problem sizes 1..MaxN for whole runs
MaxIter == 2     \* cfg.iteration in 0..MaxIter
MaxAnts == 2     \* cfg.ants_num in 1..MaxAnts
MaxAntN == 6     \* problem sizes 1..MaxAntN when run_ant is explored on its own
MaxDrawUlps == 3 \* random draws up to MaxDrawUlps doubles above 1.0
MaxFallbacks == 1 \* passes of run_ant followed after the scan has ended without a hit
MaxPop == 3      \* populations of 0..MaxPop individuals
MaxFitness == 2  \* fitness values 0..MaxFitness
MaxCount == 2    \* count in 1..MaxCount
RandomSteps == 4 \* random numbers in steps of 1 / RandomSteps

(***************************************************************************)
(* Matrices.                                                               *)
(***************************************************************************)
nrows(M) == Len(M)
ncols(M) == IF Len(M) = 0 THEN 0 ELSE Len(M[1])
shape(M) == <<nrows(M), ncols(M)>>

\* FMatrix::zeros(n, n)
zeros(n) == [a \in 1..n |-> [b \in 1..n |-> 0]]

\* Grading weights that are zero off the diagonal: every tour costs 0.
MatrixDiag(n) == [a \in 1..n |-> [b \in 1..n |-> IF a = b THEN 1 ELSE 0]]

\* Input matrices of dimension n: all ones; symmetric with zero entries;
\* not symmetric with zero entries.
MatrixOnes(n) == [a \in 1..n |-> [b \in 1..n |-> 1]]
MatrixMod(n) == [a \in 1..n |-> [b \in 1..n |-> (a + b) % 3]]
MatrixAsym(n) == [a \in 1..n |-> [b \in 1..n |-> (2 * a + b) % 3]]

\* Matrix::iter(): the entries in column-major order.
iter(M) ==
  LET r == nrows(M)
  IN  [k \in 1..(r * ncols(M)) |-> M[((k - 1) % r) + 1][((k - 1) \div r) + 1]]

\* from_iterator filling row by row
from_iterator_row_major(r, c, it) == [a \in 1..r |-> [b \in 1..c |-> it[(a - 1) * c + b]]]

\* FMatrix::from_iterator(r, c, it): fills column by column from the first
\* r*c items of it (the caller checks that there are that many).
from_iterator(r, c, it) == [a \in 1..r |-> [b \in 1..c |-> it[(b - 1) * r + a]]]

\* Matrix::component_mul (shapes equal; the caller checks).
component_mul(A, B) == [a \in 1..nrows(A) |-> [b \in 1..ncols(A) |-> A[a][b] * B[a][b]]]

RECURSIVE SumSeq(_)
SumSeq(s) == IF Len(s) = 0 THEN 0 ELSE s[1] + SumSeq(Tail(s))

\* Matrix::sum()
sum(M) == SumSeq(iter(M))

\* f64::powf for the non-negative integer exponents of the model; powf(0, 0) = 1.
RECURSIVE powf(_, _)
powf(b, e) == IF e = 0 THEN 1 ELSE b * powf(b, e - 1)

Min2(a, b) == IF a < b THEN a ELSE b


(***************************************************************************)
(* Pure functions of AntSystem.                                            *)
(***************************************************************************)
\* Solution's ordering (PartialOrd): ascending cost.
SolutionGt(a, b) == a.cost > b.cost

\* calc_prob: p.powf(alpha) * h.powf(beta)
calc_prob(p, h) == powf(p, cfg.alpha) * powf(h, cfg.beta)

\* The iterator prob_iter of run_ants: pheromone.iter().zip(heuristic.iter())
\* mapped through calc_prob; zip stops at the shorter of the two.
prob_iter ==
  LET P == iter(pheromone)
      H == iter(cfg.heuristic)
  IN  [k \in 1..Min2(Len(P), Len(H)) |-> calc_prob(P[k], H[k])]

\* An integer as a cost in halves.
ToHalves(x) == 2 * x

\* grade_one without the division by 2.0
grade_one_no_halving(s) == ToHalves(sum(component_mul(s, cfg.weights)))

\* grade_one: s.component_mul(&weights).sum() / 2.0  (result in halves)
grade_one(s) == ToHalves(sum(component_mul(s, cfg.weights))) \div 2

\* grade: costs computed from sols_m, then zip(sols_m, costs)
grade(sm) ==
  LET costs == [k \in 1..Len(sm) |-> grade_one(sm[k])]
  IN  [k \in 1..Len(sm) |-> [matrix |-> sm[k], cost |-> costs[k]]]

\* Iterator::min_by: the running minimum is replaced only by a strictly
\* smaller element, so the first of several minima is returned.
RECURSIVE min_by(_, _, _)
min_by(ss, k, cur) ==
  IF k > Len(ss) THEN cur
  ELSE min_by(ss, k + 1, IF SolutionGt(ss[cur], ss[k]) THEN k ELSE cur)

\* find_best returning the last solution of the population
find_best_last(ss) == Len(ss)

\* find_best returning the first solution of the population
find_best_first(ss) == 1

\* find_best returning the last of several minima
find_best_last_minimum(ss) ==
  CHOOSE k \in 1..Len(ss) :
    /\ \A j \in 1..Len(ss) : ~SolutionGt(ss[k], ss[j])
    /\ \A j \in (k + 1)..Len(ss) : SolutionGt(ss[j], ss[k])

\* find_best: index (in sols) of the solution returned
find_best(ss) == min_by(ss, 2, 1)

\* update_best with the comparison reversed, and with >= for >
update_best_replaces_lt(retained, current_best) == SolutionGt(current_best, retained)
update_best_replaces_ge(retained, current_best) == ~SolutionGt(current_best, retained)

\* update_best's test: self.best_sol > *current_best
update_best_replaces(retained, current_best) == SolutionGt(retained, current_best)

(***************************************************************************)
(* Pure parts of run_ant.                                                  *)
(***************************************************************************)
\* The orders in which a HashSet may be iterated.
RECURSIVE Orders(_)
Orders(S) ==
  IF S = {} THEN {<<>>}
  ELSE UNION {{<<x>> \o o : o \in Orders(S \ {x})} : x \in S}

\* for v in unvisited.iter() { sum += row[*v] }
RECURSIVE row_sum(_, _)
row_sum(row, order) ==
  IF Len(order) = 0 THEN 0 ELSE row[order[1]] + row_sum(row, Tail(order))

\* The roulette scan: r -= row[*v]; if r <= 0.0 { next = *v; break }, with
\* next = last when the scan ends without a hit.  r2 is r in halves.
RECURSIVE scan(_, _, _, _)
scan(row, order, r2, last) ==
  IF Len(order) = 0 THEN last
  ELSE LET rest == r2 - 2 * row[order[1]]
       IN  IF rest <= 0 THEN order[1] ELSE scan(row, Tail(order), rest, last)

\* only sol[(a, b)] = 1.0
mark_edge_one_way(sol, a, b) == [sol EXCEPT ![a][b] = 1]

\* sol[(a, b)] = 1.0; sol[(b, a)] = 1.0
mark_edge(sol, a, b) == [[sol EXCEPT ![a][b] = 1] EXCEPT ![b][a] = 1]

(***************************************************************************)
(* run_ant's arithmetic in f64, on the values 0, 1 and a few units of      *)
(* 2^-56 around them.  [one |-> b, frac |-> k] is the number b + k * 2^-56 *)
(* with |k| far below 2^52.  With b = 0 every k is a double; with b = 1    *)
(* the doubles are 16 units apart from 1 upwards (52 fraction bits) and 8  *)
(* units apart below 1.  Sums and differences are rounded to the nearest   *)
(* double, ties to the even mantissa.  A sum holds at most one value with  *)
(* b = 1; of a negative difference (b = -1) only the sign is read.         *)
(***************************************************************************)
f64(b, k) == [one |-> b, frac |-> k]

\* the weight of an edge that is barely usable: 9 * 2^-56, a little more than
\* half the distance between 1.0 and the next double
f64_tiny == f64(0, 9)

\* round to nearest, ties to even
f64_round(x) ==
  IF x.one # 1 THEN x
  ELSE IF x.frac >= 0
       THEN LET q == x.frac \div 16
                rem == x.frac % 16
            IN  f64(1, IF rem < 8 \/ (rem = 8 /\ q % 2 = 0) THEN 16 * q ELSE 16 * (q + 1))
       ELSE LET q == (0 - x.frac) \div 8
                rem == (0 - x.frac) % 8
            IN  f64(1, IF rem < 4 \/ (rem = 4 /\ q % 2 = 0) THEN 0 - 8 * q ELSE 0 - 8 * (q + 1))

\* x + y and x - y
f64_add(x, y) == f64_round(f64(x.one + y.one, x.frac + y.frac))
f64_sub(x, y) == f64_round(f64(x.one - y.one, x.frac - y.frac))

\* x < y
f64_lt(x, y) == x.one < y.one \/ (x.one = y.one /\ x.frac < y.frac)

\* for v in unvisited.iter() { sum += row[*v] }, from acc
RECURSIVE row_sum_f64(_, _, _)
row_sum_f64(row, order, acc) ==
  IF Len(order) = 0 THEN acc
  ELSE row_sum_f64(row, Tail(order), f64_add(acc, row[order[1]]))

\* Values that gen_range(0.0..sum) can return: the doubles r with 0 <= r < sum
\* among 0, the first units of 2^-56, the double below 1.0, 1.0 and the
\* doubles that follow it.
F64Draws(total) ==
  {r \in {f64(0, k) : k \in 0..(16 * MaxDrawUlps)}
          \cup {f64(1, 16 * k) : k \in 0..MaxDrawUlps} \cup {f64(1, 0 - 8)} :
     f64_lt(r, total)}

\* The roulette scan: r -= row[*v]; if r <= 0.0 { next = *v; break }, with
\* next = last when the scan ends without a hit.
RECURSIVE scan_f64(_, _, _, _)
scan_f64(row, order, r, last) ==
  IF Len(order) = 0 THEN last
  ELSE LET rest == f64_sub(r, row[order[1]])
       IN  IF ~f64_lt(f64(0, 0), rest) THEN order[1] ELSE scan_f64(row, Tail(order), rest, last)

(***************************************************************************)
(* Initial states.                                                         *)
(***************************************************************************)
\* no call of a selection operator
NoSelection ==
  [op |-> "none", population |-> <<>>, count |-> 0, pc |-> "none",
   total_fitness |-> 0, den |-> 1, distance_between_pointers |-> 0, pointer_pos |-> 0,
   threshold |-> 0, curr_sum |-> 0, idx |-> 0, round |-> 0, selected |-> <<>>]

NoSolution == [matrix |-> <<>>, cost |-> 0]
NoAnt == [sol |-> <<>>, unvisited |-> {}, first |-> 0, last |-> 0,
          state |-> "idle", passes |-> 0, fallbacks |-> 0]
NoArgs == [current_best |-> NoSolution, new_best |-> NoSolution,
           old |-> <<>>, new |-> <<>>]
NoCalls == [calls |-> 0, pheromone |-> <<>>, sols |-> <<>>, evaporation_rate |-> 0]

\* Exponents, initial pheromone, heuristic and grading weights of a run.
\* With ScenarioMod the transition weights have zero entries.
ScenarioMod(n) ==
  [alpha |-> 0, beta |-> 1, pheromone |-> MatrixMod(n),
   heuristic |-> MatrixMod(n), weights |-> MatrixAsym(n)]

Scenarios(n) ==
  { [alpha |-> 1, beta |-> 1, pheromone |-> MatrixOnes(n),
     heuristic |-> MatrixOnes(n), weights |-> MatrixOnes(n)],
    ScenarioMod(n),
    [alpha |-> 1, beta |-> 2, pheromone |-> MatrixAsym(n),
     heuristic |-> MatrixOnes(n), weights |-> MatrixMod(n)],
    [alpha |-> 2, beta |-> 0, pheromone |-> MatrixMod(n),
     heuristic |-> MatrixAsym(n), weights |-> MatrixDiag(n)] }

\* Costs (in halves) of the best solution the engine is constructed with.
InitialBestCosts == {0, 6, 1000}

\* The engine as constructed for problem size n, with scenario s and a best
\* solution of cost c.
Constructed(n, it, an, s, c) ==
  /\ cfg = [iteration |-> it, ants_num |-> an, alpha |-> s.alpha, beta |-> s.beta,
            evaporation_rate |-> 1, weights |-> s.weights, heuristic |-> s.heuristic]
  /\ pheromone = s.pheromone
  /\ best_sol = [matrix |-> zeros(n), cost |-> c]
  /\ initial = [pheromone |-> s.pheromone, best_sol |-> [matrix |-> zeros(n), cost |-> c]]
  /\ sel = NoSelection
  /\ pc = "run"
  /\ i = 0
  /\ prob = <<>>
  /\ ant = NoAnt
  /\ sols_m = <<>>
  /\ sols = <<>>
  /\ best = NoSolution
  /\ probe = <<>>
  /\ probe_arg = NoArgs
  /\ diag = 0
  /\ strategy = NoCalls

Init ==
  \E n \in 1..MaxN, it \in 0..MaxIter, an \in 1..MaxAnts, c \in InitialBestCosts :
    \E s \in Scenarios(n) : Constructed(n, it, an, s, c)

\* The runs of ScenarioMod that start from a best solution of cost 1000/2.
InitMod ==
  \E n \in 1..MaxN, it \in 0..MaxIter, an \in 1..MaxAnts :
    Constructed(n, it, an, ScenarioMod(n), 1000)

(***************************************************************************)
(* The pheromone update strategy is a collaborator outside the engine: it  *)
(* may return any matrix.  SameShapeOutputs are returns that keep the      *)
(* dimensions of the matrix given (the strategy's contract); AnyShape-     *)
(* Outputs add a smaller and a larger one.                                 *)
(***************************************************************************)
SameShapeOutputs(P) == {MatrixOnes(nrows(P)), MatrixMod(nrows(P))}
AnyShapeOutputs(P) ==
  SameShapeOutputs(P) \cup {MatrixOnes(nrows(P) + 1), MatrixOnes(nrows(P) - 1)}

(***************************************************************************)
(* Actions.                                                                *)
(***************************************************************************)
Call(name, idx) == [ev |-> name, idx |-> idx]
\* a probe call without an index argument
CallRef(name) == [ev |-> name, idx |-> -1]

\* run with the loop entered for i <= cfg.iteration
IterationStartInclusive ==
  /\ pc = "run"
  /\ i <= cfg.iteration
  /\ probe' = Append(probe, Call("on_iteration_start", i))
  /\ pc' = "run_ants"
  /\ UNCHANGED <<cfg, pheromone, best_sol, i, prob, ant, sols_m, sols, best,
                 probe_arg, diag, strategy, initial, sel>>

\* run: the loop is entered for i < cfg.iteration; on_iteration_start(i)
IterationStart ==
  /\ pc = "run"
  /\ i < cfg.iteration
  /\ probe' = Append(probe, Call("on_iteration_start", i))
  /\ pc' = "run_ants"
  /\ UNCHANGED <<cfg, pheromone, best_sol, i, prob, ant, sols_m, sols, best,
                 probe_arg, diag, strategy, initial, sel>>

\* run_ants, up to the first call of run_ant: prob is built from the zipped
\* iterator; from_iterator panics when the iterator is too short.
RunAnts ==
  /\ pc = "run_ants"
  /\ LET it == prob_iter
         r == nrows(pheromone)
         c == ncols(pheromone)
     IN  IF Len(it) < r * c
         THEN /\ pc' = "panicked"
              /\ UNCHANGED <<prob, sols_m>>
         ELSE /\ prob' = from_iterator(r, c, it)
              /\ sols_m' = <<>>
              /\ pc' = IF cfg.ants_num = 0 THEN "grade" ELSE "ant_first"
  /\ UNCHANGED <<cfg, pheromone, best_sol, i, ant, sols, best,
                 probe, probe_arg, diag, strategy, initial, sel>>

\* run_ant, lines 107-114: gen_range(0..n) panics on an empty range.
AntFirst ==
  /\ pc = "ant_first"
  /\ LET n == nrows(prob)
     IN  IF n = 0
         THEN /\ pc' = "panicked"
              /\ UNCHANGED ant
         ELSE \E first \in 1..n :
                /\ ant' = [sol |-> zeros(n), unvisited |-> (1..n) \ {first},
                           first |-> first, last |-> first,
                           state |-> "building", passes |-> 0, fallbacks |-> 0]
                /\ pc' = "ant_loop"
  /\ UNCHANGED <<cfg, pheromone, best_sol, i, prob, sols_m, sols, best,
                 probe, probe_arg, diag, strategy, initial, sel>>

\* run_ants collects the matrix returned by run_ant and calls the next one.
Return(m) ==
  /\ sols_m' = Append(sols_m, m)
  /\ pc' = IF Len(sols_m) + 1 < cfg.ants_num THEN "ant_first" ELSE "grade"

\* run_ant returning sol, with the edges marked so far, on the degenerate exit
AntDegenerateKeepsEdges ==
  /\ pc = "ant_loop"
  /\ ant.unvisited # {}
  /\ \E order \in Orders(ant.unvisited) :
       /\ ~(0 < row_sum(prob[ant.last], order))
       /\ diag' = diag + 1
       /\ ant' = [NoAnt EXCEPT !.state = "degenerate", !.passes = ant.passes]
       /\ Return(ant.sol)
  /\ UNCHANGED <<cfg, pheromone, best_sol, i, prob, sols, best,
                 probe, probe_arg, strategy, initial, sel>>

\* run_ant, lines 116-127: the range 0.0..sum is empty, the diagnostic is
\* printed and a zero matrix returned.
AntDegenerate ==
  /\ pc = "ant_loop"
  /\ ant.unvisited # {}
  /\ \E order \in Orders(ant.unvisited) :
       /\ ~(0 < row_sum(prob[ant.last], order))
       /\ diag' = diag + 1
       /\ ant' = [NoAnt EXCEPT !.state = "degenerate", !.passes = ant.passes]
       /\ Return(zeros(nrows(prob)))
  /\ UNCHANGED <<cfg, pheromone, best_sol, i, prob, sols, best,
                 probe, probe_arg, strategy, initial, sel>>

\* run_ant, lines 116-142: one pass of the loop that selects a node.  The
\* set is iterated in the same order by both loops of the pass.
AntSelect ==
  /\ pc = "ant_loop"
  /\ ant.unvisited # {}
  /\ \E order \in Orders(ant.unvisited) :
       LET row == prob[ant.last]
           total == row_sum(row, order)
       IN  /\ 0 < total
           /\ \E r2 \in 0..(2 * total - 1) :
                LET next == scan(row, order, r2, ant.last)
                IN  ant' = [ant EXCEPT
                              !.sol = mark_edge(ant.sol, ant.last, next),
                              !.unvisited = ant.unvisited \ {next},
                              !.last = next,
                              !.passes = ant.passes + 1,
                              !.fallbacks = ant.fallbacks + (IF next = ant.last THEN 1 ELSE 0)]
  /\ UNCHANGED <<cfg, pheromone, best_sol, pc, i, prob, sols_m, sols, best,
                 probe, probe_arg, diag, strategy, initial, sel>>

\* run_ant followed by a pheromone update of its own (a per-ant update)
AntCloseLocalUpdate ==
  /\ pc = "ant_loop"
  /\ ant.unvisited = {}
  /\ ant' = [NoAnt EXCEPT !.sol = mark_edge(ant.sol, ant.last, ant.first),
                          !.state = "done",
                          !.passes = ant.passes,
                          !.fallbacks = ant.fallbacks]
  /\ Return(ant'.sol)
  /\ pheromone' = MatrixMod(nrows(pheromone))
  /\ UNCHANGED <<cfg, best_sol, i, prob, sols, best,
                 probe, probe_arg, diag, strategy, initial, sel>>

\* run_ant, lines 145-148: the closing edge, and the return.
AntClose ==
  /\ pc = "ant_loop"
  /\ ant.unvisited = {}
  /\ ant' = [NoAnt EXCEPT !.sol = mark_edge(ant.sol, ant.last, ant.first),
                          !.state = "done",
                          !.passes = ant.passes,
                          !.fallbacks = ant.fallbacks]
  /\ Return(ant'.sol)
  /\ UNCHANGED <<cfg, pheromone, best_sol, i, prob, sols, best,
                 probe, probe_arg, diag, strategy, initial, sel>>

\* run_ant, lines 116-127, in f64: the range 0.0..sum is empty.
AntDegenerateF64 ==
  /\ pc = "ant_loop"
  /\ ant.unvisited # {}
  /\ \E order \in Orders(ant.unvisited) :
       /\ ~f64_lt(f64(0, 0), row_sum_f64(prob[ant.last], order, f64(0, 0)))
       /\ diag' = diag + 1
       /\ ant' = [NoAnt EXCEPT !.state = "degenerate", !.passes = ant.passes,
                               !.fallbacks = ant.fallbacks]
       /\ Return(zeros(nrows(prob)))
  /\ UNCHANGED <<cfg, pheromone, best_sol, i, prob, sols, best,
                 probe, probe_arg, strategy, initial, sel>>

\* run_ant, lines 116-142, in f64: one pass of the loop, for the draws r of
\* F64Draws.  A pass that leaves unvisited as it was can repeat without end:
\* the model follows MaxFallbacks of them in one call.
AntSelectF64 ==
  /\ pc = "ant_loop"
  /\ ant.unvisited # {}
  /\ \E order \in Orders(ant.unvisited) :
       LET row == prob[ant.last]
           total == row_sum_f64(row, order, f64(0, 0))
       IN  /\ f64_lt(f64(0, 0), total)
           /\ \E r \in F64Draws(total) :
                LET next == scan_f64(row, order, r, ant.last)
                IN  /\ next = ant.last => ant.fallbacks < MaxFallbacks
                    /\ ant' = [ant EXCEPT
                                 !.sol = mark_edge(ant.sol, ant.last, next),
                                 !.unvisited = ant.unvisited \ {next},
                                 !.last = next,
                                 !.passes = ant.passes + 1,
                                 !.fallbacks = ant.fallbacks + (IF next = ant.last THEN 1 ELSE 0)]
  /\ UNCHANGED <<cfg, pheromone, best_sol, pc, i, prob, sols_m, sols, best,
                 probe, probe_arg, diag, strategy, initial, sel>>

\* iterate, line 38: component_mul panics on matrices of different shapes.
Grade ==
  /\ pc = "grade"
  /\ IF \E k \in 1..Len(sols_m) : shape(sols_m[k]) # shape(cfg.weights)
     THEN /\ pc' = "panicked"
          /\ UNCHANGED sols
     ELSE /\ sols' = grade(sols_m)
          /\ pc' = "find_best"
  /\ UNCHANGED <<cfg, pheromone, best_sol, i, prob, ant, sols_m, best,
                 probe, probe_arg, diag, strategy, initial, sel>>

\* iterate, lines 40-41: find_best (unwrap panics on an empty population)
\* and on_current_best(best)
FindBest ==
  /\ pc = "find_best"
  /\ IF Len(sols) = 0
     THEN /\ pc' = "panicked"
          /\ UNCHANGED <<best, probe, probe_arg>>
     ELSE /\ best' = sols[find_best(sols)]
          /\ probe' = Append(probe, CallRef("on_current_best"))
          /\ probe_arg' = [probe_arg EXCEPT !.current_best = best']
          /\ pc' = "update_best"
  /\ UNCHANGED <<cfg, pheromone, best_sol, i, prob, ant, sols_m, sols,
                 diag, strategy, initial, sel>>

\* iterate, line 42: update_best(best)
UpdateBest ==
  /\ pc = "update_best"
  /\ IF update_best_replaces(best_sol, best)
     THEN /\ probe' = Append(probe, CallRef("on_new_best"))
          /\ probe_arg' = [probe_arg EXCEPT !.new_best = best]
          /\ best_sol' = best
     ELSE UNCHANGED <<probe, probe_arg, best_sol>>
  /\ pc' = "pheromone_update"
  /\ UNCHANGED <<cfg, pheromone, i, prob, ant, sols_m, sols, best,
                 diag, strategy, initial, sel>>

\* iterate calling on_pheromone_update after the returned matrix is stored
PheromoneUpdateNotifiesLate(outs) ==
  /\ pc = "pheromone_update"
  /\ \E new_pheromone \in outs :
       /\ strategy' = [calls |-> strategy.calls + 1, pheromone |-> pheromone,
                       sols |-> sols, evaporation_rate |-> cfg.evaporation_rate]
       /\ probe' = Append(probe, CallRef("on_pheromone_update"))
       /\ probe_arg' = [probe_arg EXCEPT !.old = new_pheromone, !.new = new_pheromone]
       /\ pheromone' = new_pheromone
  /\ pc' = "iteration_end"
  /\ UNCHANGED <<cfg, best_sol, i, prob, ant, sols_m, sols, best, diag, initial, sel>>

\* iterate storing the returned matrix in cfg.heuristic as well
PheromoneUpdateStoresInCfg(outs) ==
  /\ pc = "pheromone_update"
  /\ \E new_pheromone \in outs :
       /\ strategy' = [calls |-> strategy.calls + 1, pheromone |-> pheromone,
                       sols |-> sols, evaporation_rate |-> cfg.evaporation_rate]
       /\ probe' = Append(probe, CallRef("on_pheromone_update"))
       /\ probe_arg' = [probe_arg EXCEPT !.old = pheromone, !.new = new_pheromone]
       /\ pheromone' = new_pheromone
       /\ cfg' = [cfg EXCEPT !.heuristic = new_pheromone]
  /\ pc' = "iteration_end"
  /\ UNCHANGED <<best_sol, i, prob, ant, sols_m, sols, best, diag, initial, sel>>

\* iterate, lines 44-53: the strategy is applied to the stored pheromone and
\* the graded solutions, on_pheromone_update(old, new) is called, and the
\* returned matrix is stored.
PheromoneUpdate(outs) ==
  /\ pc = "pheromone_update"
  /\ \E new_pheromone \in outs :
       /\ strategy' = [calls |-> strategy.calls + 1, pheromone |-> pheromone,
                       sols |-> sols, evaporation_rate |-> cfg.evaporation_rate]
       /\ probe' = Append(probe, CallRef("on_pheromone_update"))
       /\ probe_arg' = [probe_arg EXCEPT !.old = pheromone, !.new = new_pheromone]
       /\ pheromone' = new_pheromone
  /\ pc' = "iteration_end"
  /\ UNCHANGED <<cfg, best_sol, i, prob, ant, sols_m, sols, best, diag, initial, sel>>

\* run with on_iteration_end(i + 1), and with the loop stepping by 2
IterationEndNextIndex ==
  /\ pc = "iteration_end"
  /\ probe' = Append(probe, Call("on_iteration_end", i + 1))
  /\ i' = i + 1
  /\ pc' = "run"
  /\ prob' = <<>>
  /\ ant' = NoAnt
  /\ sols_m' = <<>>
  /\ sols' = <<>>
  /\ best' = NoSolution
  /\ probe_arg' = NoArgs
  /\ diag' = 0
  /\ strategy' = [NoCalls EXCEPT !.calls = strategy.calls]
  /\ UNCHANGED <<cfg, pheromone, best_sol, initial, sel>>

IterationEndStepBy2 ==
  /\ pc = "iteration_end"
  /\ probe' = Append(probe, Call("on_iteration_end", i))
  /\ i' = i + 2
  /\ pc' = "run"
  /\ prob' = <<>>
  /\ ant' = NoAnt
  /\ sols_m' = <<>>
  /\ sols' = <<>>
  /\ best' = NoSolution
  /\ probe_arg' = NoArgs
  /\ diag' = 0
  /\ strategy' = [NoCalls EXCEPT !.calls = strategy.calls]
  /\ UNCHANGED <<cfg, pheromone, best_sol, initial, sel>>

\* run, line 30 and the loop's step: iterate has returned (its locals and
\* the references it lent are gone), on_iteration_end(i)
IterationEnd ==
  /\ pc = "iteration_end"
  /\ probe' = Append(probe, Call("on_iteration_end", i))
  /\ i' = i + 1
  /\ pc' = "run"
  /\ prob' = <<>>
  /\ ant' = NoAnt
  /\ sols_m' = <<>>
  /\ sols' = <<>>
  /\ best' = NoSolution
  /\ probe_arg' = NoArgs
  /\ diag' = 0
  /\ strategy' = [NoCalls EXCEPT !.calls = strategy.calls]
  /\ UNCHANGED <<cfg, pheromone, best_sol, initial, sel>>

\* run, line 33, and end: on_end()
End ==
  /\ pc = "run"
  /\ ~(i < cfg.iteration)
  /\ probe' = Append(probe, CallRef("on_end"))
  /\ pc' = "done"
  /\ UNCHANGED <<cfg, pheromone, best_sol, i, prob, ant, sols_m, sols, best,
                 probe_arg, diag, strategy, initial, sel>>

\* A run whose strategy keeps its contract.
Next ==
  \/ IterationStart
  \/ RunAnts
  \/ AntFirst
  \/ AntDegenerate
  \/ AntSelect
  \/ AntClose
  \/ Grade
  \/ FindBest
  \/ UpdateBest
  \/ PheromoneUpdate(SameShapeOutputs(pheromone))
  \/ IterationEnd
  \/ End

Spec == Init /\ [][Next]_vars

\* The run is sequential code: whenever a step is possible, it is taken.
FairSpec == InitMod /\ [][Next]_vars /\ WF_vars(Next)

\* A run whose strategy may break its contract on dimensions.
NextShape ==
  \/ IterationStart
  \/ RunAnts
  \/ AntFirst
  \/ AntDegenerate
  \/ AntSelect
  \/ AntClose
  \/ Grade
  \/ FindBest
  \/ UpdateBest
  \/ PheromoneUpdate(AnyShapeOutputs(pheromone))
  \/ IterationEnd
  \/ End

SpecShape == Init /\ [][NextShape]_vars

\* One call of run_ant on its own, on a weight matrix of dimension 1..MaxAntN.
InitAnt ==
  \E n \in 1..MaxAntN :
    \E w \in {MatrixOnes(n), MatrixMod(n), MatrixAsym(n)} :
      /\ cfg = [iteration |-> 1, ants_num |-> 1, alpha |-> 1, beta |-> 1,
                evaporation_rate |-> 1, weights |-> w, heuristic |-> MatrixOnes(n)]
      /\ pheromone = w
      /\ best_sol = [matrix |-> zeros(n), cost |-> 0]
      /\ initial = [pheromone |-> w, best_sol |-> [matrix |-> zeros(n), cost |-> 0]]
      /\ sel = NoSelection
      /\ pc = "ant_first"
      /\ i = 0
      /\ prob = w
      /\ ant = NoAnt
      /\ sols_m = <<>>
      /\ sols = <<>>
      /\ best = NoSolution
      /\ probe = <<Call("on_iteration_start", 0)>>
      /\ probe_arg = NoArgs
      /\ diag = 0
      /\ strategy = NoCalls

NextAnt ==
  \/ AntFirst
  \/ AntDegenerate
  \/ AntSelect
  \/ AntClose

SpecAnt == InitAnt /\ [][NextAnt]_vars

\* One call of run_ant computed in f64, on a weight matrix whose entries are
\* 1.0 towards node 1, 0.0 from node 2 and f64_tiny elsewhere.
MatrixF64(n) ==
  [a \in 1..n |-> [b \in 1..n |->
    IF a = 2 THEN f64(0, 0) ELSE IF b = 1 THEN f64(1, 0) ELSE f64_tiny]]

InitAntF64 ==
  \E n \in 1..MaxAntN :
    /\ cfg = [iteration |-> 1, ants_num |-> 1, alpha |-> 1, beta |-> 1,
              evaporation_rate |-> 1, weights |-> MatrixOnes(n), heuristic |-> MatrixOnes(n)]
    /\ pheromone = MatrixOnes(n)
    /\ best_sol = [matrix |-> zeros(n), cost |-> 0]
    /\ initial = [pheromone |-> MatrixOnes(n), best_sol |-> [matrix |-> zeros(n), cost |-> 0]]
    /\ sel = NoSelection
    /\ pc = "ant_first"
    /\ i = 0
    /\ prob = MatrixF64(n)
    /\ ant = NoAnt
    /\ sols_m = <<>>
    /\ sols = <<>>
    /\ best = NoSolution
    /\ probe = <<Call("on_iteration_start", 0)>>
    /\ probe_arg = NoArgs
    /\ diag = 0
    /\ strategy = NoCalls

NextAntF64 ==
  \/ AntFirst
  \/ AntDegenerateF64
  \/ AntSelectF64
  \/ AntClose

SpecAntF64 == InitAntF64 /\ [][NextAntF64]_vars

(***************************************************************************)
(* ga::operators::selection: RouletteWheel::apply and                      *)
(* StochasticUniversalSampling::apply.  The population is the sequence of  *)
(* the individuals' fitness values, selected holds the positions of the    *)
(* individuals referenced.  total_fitness, curr_sum / crt_sum, threshold,  *)
(* distance_between_pointers and pointer_pos are fractions over sel.den.   *)
(***************************************************************************)
RECURSIVE SeqsUpTo(_, _)
\* the sequences over S of length 0..n
SeqsUpTo(S, n) ==
  IF n = 0 THEN {<<>>}
  ELSE LET shorter == SeqsUpTo(S, n - 1)
       IN  shorter \cup {Append(p, x) : p \in shorter, x \in S}

Populations == SeqsUpTo(0..MaxFitness, MaxPop)

\* population.iter().map(|indiv| indiv.get_fitness()).sum()
total_fitness(population) == SumSeq(population)

\* The state of the engine while a selection operator is called on its own.
EngineUnused ==
  /\ cfg = [iteration |-> 0, ants_num |-> 0, alpha |-> 0, beta |-> 0,
            evaporation_rate |-> 0, weights |-> <<>>, heuristic |-> <<>>]
  /\ pheromone = <<>>
  /\ best_sol = NoSolution
  /\ initial = [pheromone |-> <<>>, best_sol |-> NoSolution]
  /\ pc = "unused"
  /\ i = 0
  /\ prob = <<>>
  /\ ant = NoAnt
  /\ sols_m = <<>>
  /\ sols = <<>>
  /\ best = NoSolution
  /\ probe = <<>>
  /\ probe_arg = NoArgs
  /\ diag = 0
  /\ strategy = NoCalls

InitSelection ==
  /\ EngineUnused
  /\ \E op \in {"RouletteWheel", "StochasticUniversalSampling"},
        population \in Populations, count \in 1..MaxCount :
       sel = [NoSelection EXCEPT !.op = op, !.population = population,
                                 !.count = count, !.pc = "apply"]

engine_vars == <<cfg, pheromone, best_sol, pc, i, prob, ant, sols_m, sols, best,
                 probe, probe_arg, diag, strategy, initial>>

\* RouletteWheel::apply, lines 20-25
RouletteWheelApply ==
  /\ sel.pc = "apply"
  /\ sel.op = "RouletteWheel"
  /\ sel' = [sel EXCEPT !.den = RandomSteps,
                        !.total_fitness = total_fitness(sel.population) * RandomSteps,
                        !.selected = <<>>,
                        !.round = 0,
                        !.pc = "rw_for"]
  /\ UNCHANGED engine_vars

\* lines 27-30: the next of the count rounds; threshold = total_fitness * u
\* for a random u = k / RandomSteps in [0, 1)
RouletteWheelRound ==
  /\ sel.pc = "rw_for"
  /\ sel.round < sel.count
  /\ \E k \in 0..(RandomSteps - 1) :
       sel' = [sel EXCEPT !.threshold = (sel.total_fitness * k) \div RandomSteps,
                          !.curr_sum = 0,
                          !.idx = 0,
                          !.round = sel.round + 1,
                          !.pc = "rw_scan"]
  /\ UNCHANGED engine_vars

\* lines 31-37: one step of for indiv in population; the round ends with the
\* push and break, or when the population is exhausted
RouletteWheelScan ==
  /\ sel.pc = "rw_scan"
  /\ IF sel.idx < Len(sel.population)
     THEN LET crt_sum == sel.curr_sum + sel.population[sel.idx + 1] * sel.den
          IN  IF crt_sum > sel.threshold
              THEN sel' = [sel EXCEPT !.curr_sum = crt_sum,
                                      !.idx = sel.idx + 1,
                                      !.selected = Append(sel.selected, sel.idx + 1),
                                      !.pc = "rw_for"]
              ELSE sel' = [sel EXCEPT !.curr_sum = crt_sum, !.idx = sel.idx + 1]
     ELSE sel' = [sel EXCEPT !.pc = "rw_for"]
  /\ UNCHANGED engine_vars

\* line 39: selected is returned after count rounds
RouletteWheelReturn ==
  /\ sel.pc = "rw_for"
  /\ ~(sel.round < sel.count)
  /\ sel' = [sel EXCEPT !.pc = "returned"]
  /\ UNCHANGED engine_vars

\* StochasticUniversalSampling::apply, lines 173-185:
\* distance_between_pointers = total_fitness / count, asserted positive;
\* pointer_pos = gen_range(0.0..=distance_between_pointers), drawn as
\* distance_between_pointers * k / RandomSteps for k in 0..RandomSteps
StochasticUniversalSamplingApply ==
  /\ sel.pc = "apply"
  /\ sel.op = "StochasticUniversalSampling"
  /\ LET den == sel.count * RandomSteps
         total == total_fitness(sel.population) * den
         distance == total \div sel.count
     IN  IF ~(distance > 0)
         THEN sel' = [sel EXCEPT !.den = den, !.total_fitness = total,
                                 !.distance_between_pointers = distance,
                                 !.pc = "panicked"]
         ELSE \E k \in 0..RandomSteps :
                sel' = [sel EXCEPT !.den = den, !.total_fitness = total,
                                   !.distance_between_pointers = distance,
                                   !.pointer_pos = (distance * k) \div RandomSteps,
                                   !.curr_sum = 0,
                                   !.idx = 0,
                                   !.selected = <<>>,
                                   !.pc = "sus_for"]
  /\ UNCHANGED engine_vars

\* lines 188-189: the next individual; curr_sum += idv.get_fitness()
StochasticUniversalSamplingFor ==
  /\ sel.pc = "sus_for"
  /\ sel.idx < Len(sel.population)
  /\ sel' = [sel EXCEPT !.curr_sum = sel.curr_sum + sel.population[sel.idx + 1] * sel.den,
                        !.idx = sel.idx + 1,
                        !.pc = "sus_while"]
  /\ UNCHANGED engine_vars

\* lines 191-194: while curr_sum >= pointer_pos { push; pointer_pos += distance }
StochasticUniversalSamplingWhile ==
  /\ sel.pc = "sus_while"
  /\ IF sel.curr_sum >= sel.pointer_pos
     THEN sel' = [sel EXCEPT !.selected = Append(sel.selected, sel.idx),
                             !.pointer_pos = sel.pointer_pos + sel.distance_between_pointers]
     ELSE sel' = [sel EXCEPT !.pc = "sus_for"]
  /\ UNCHANGED engine_vars

\* lines 197-199: assert_eq!(selected.len(), count); selected
StochasticUniversalSamplingReturn ==
  /\ sel.pc = "sus_for"
  /\ ~(sel.idx < Len(sel.population))
  /\ sel' = [sel EXCEPT !.pc = IF Len(sel.selected) = sel.count THEN "returned" ELSE "panicked"]
  /\ UNCHANGED engine_vars

NextSelection ==
  \/ RouletteWheelApply
  \/ RouletteWheelRound
  \/ RouletteWheelScan
  \/ RouletteWheelReturn
  \/ StochasticUniversalSamplingApply
  \/ StochasticUniversalSamplingFor
  \/ StochasticUniversalSamplingWhile
  \/ StochasticUniversalSamplingReturn

SpecSelection == InitSelection /\ [][NextSelection]_vars

(***************************************************************************)
(* Helpers of the properties.                                              *)
(***************************************************************************)
RECURSIVE SetSum(_, _)
\* the sum of f[x] over x in S
SetSum(f, S) ==
  IF S = {} THEN 0
  ELSE LET x == CHOOSE y \in S : TRUE IN f[x] + SetSum(f, S \ {x})

Last(s) == s[Len(s)]
Count(log, name) == Cardinality({k \in 1..Len(log) : log[k].ev = name})

\* The probe's protocol: the phase reached after call e in phase ph, where
\* idx is the index argument of the iteration in progress.
ProtocolStep(ph, idx, e) ==
  CASE ph = "run" /\ e.ev = "on_iteration_start" -> "started"
    [] ph = "run" /\ e.ev = "on_end" -> "ended"
    [] ph = "started" /\ e.ev = "on_current_best" -> "current_best"
    [] ph = "current_best" /\ e.ev = "on_new_best" -> "new_best"
    [] ph \in {"current_best", "new_best"} /\ e.ev = "on_pheromone_update" -> "updated"
    [] ph = "updated" /\ e.ev = "on_iteration_end" /\ e.idx = idx -> "run"
    [] OTHER -> "bad"

RECURSIVE Protocol(_, _, _, _)
\* the phase reached by log[k..], started in phase ph
Protocol(log, k, ph, idx) ==
  IF k > Len(log) \/ ph = "bad" THEN ph
  ELSE Protocol(log, k + 1, ProtocolStep(ph, idx, log[k]),
                IF log[k].ev = "on_iteration_start" THEN log[k].idx ELSE idx)

Appended(name) == probe' = Append(probe, CallRef(name))

(***************************************************************************)
(* C1. In every iteration the probe is called in the order                 *)
(* on_iteration_start(i), on_current_best, on_new_best (only when the      *)
(* retained best improves), on_pheromone_update, on_iteration_end(i), with *)
(* on_current_best and on_pheromone_update exactly once per iteration and  *)
(* the same i at start and end; on_current_best carries the iteration's    *)
(* best and on_pheromone_update the old and the new matrix.                *)
(***************************************************************************)
C1_ProbeOrder ==
  /\ [](Protocol(probe, 1, "run", 0) # "bad")
  /\ [][/\ Appended("on_new_best") => best_sol'.cost < best_sol.cost
        /\ Appended("on_current_best") => probe_arg'.current_best = best'
        /\ Appended("on_pheromone_update") =>
             probe_arg'.old = pheromone /\ probe_arg'.new = pheromone']_vars

C1_Witness ==
  /\ pc = "run"
  /\ i = 2
  /\ Count(probe, "on_new_best") = 1
  /\ Last(probe) = Call("on_iteration_end", 1)

(***************************************************************************)
(* C2. The cost of the retained best never increases.                      *)
(***************************************************************************)
C2_BestCostNonIncreasing == [][best_sol'.cost <= best_sol.cost]_vars

C2_Witness ==
  /\ Count(probe, "on_new_best") = 2
  /\ best_sol.cost < initial.best_sol.cost

(***************************************************************************)
(* C3. update_best replaces the retained best and calls on_new_best        *)
(* exactly when the iteration's best costs strictly less; otherwise the    *)
(* retained best stays and on_new_best is not called; on_new_best gets the *)
(* solution that becomes the retained best.  Nothing else replaces it.     *)
(***************************************************************************)
C3_UpdateBest ==
  [][IF pc = "update_best"
     THEN IF best.cost < best_sol.cost
          THEN /\ best_sol' = best
               /\ Appended("on_new_best")
               /\ probe_arg'.new_best = best_sol'
          ELSE /\ best_sol' = best_sol
               /\ probe' = probe
     ELSE /\ best_sol' = best_sol
          /\ ~Appended("on_new_best")]_vars

\* an iteration's best of the same cost as the retained best, which stays
C3_Witness ==
  /\ pc = "pheromone_update"
  /\ best.cost = best_sol.cost
  /\ best.matrix # best_sol.matrix
  /\ Count(probe, "on_new_best") = 1

(***************************************************************************)
(* C4. Tours.  M is a tour of n nodes: square of dimension n, symmetric,   *)
(* entries 0 or 1, every row and every column sums to 2, n undirected      *)
(* edges, and every node reachable from node 1 along marked edges.         *)
(***************************************************************************)
RECURSIVE Reach(_, _)
Reach(M, S) ==
  LET T == S \cup {b \in 1..nrows(M) : \E a \in S : M[a][b] = 1}
  IN  IF T = S THEN S ELSE Reach(M, T)

Edges(M) == {e \in SUBSET (1..nrows(M)) : \E a, b \in e : e = {a, b} /\ M[a][b] = 1}

IsTour(M, n) ==
  /\ shape(M) = <<n, n>>
  /\ \A a, b \in 1..n : M[a][b] \in {0, 1} /\ M[a][b] = M[b][a]
  /\ \A a \in 1..n : SetSum(M[a], 1..n) = 2
  /\ \A b \in 1..n : SetSum([a \in 1..n |-> M[a][b]], 1..n) = 2
  /\ \A e \in Edges(M) : Cardinality(e) = 2
  /\ Cardinality(Edges(M)) = n
  /\ Reach(M, {1}) = 1..n

\* C4 for every problem size: a run_ant call that returns without the
\* degenerate exit returns a tour.  (No matrix of dimension 1 or 2 is a tour.)
C4_TourForEverySize ==
  ant.state = "done" => IsTour(ant.sol, nrows(prob)) /\ Last(sols_m) = ant.sol

\* C4 for the problem sizes that have tours: for every problem size of at
\* least 3, a run_ant call that returns without the degenerate exit returns a
\* tour.  (It holds in exact arithmetic, under SpecAnt.)
C4_TourFromSize3 ==
  (ant.state = "done" /\ nrows(prob) >= 3)
    => IsTour(ant.sol, nrows(prob)) /\ Last(sols_m) = ant.sol

\* a tour of 6 nodes built on a weight matrix that has zero entries
C4_Witness ==
  /\ ant.state = "done"
  /\ nrows(prob) = 6
  /\ prob = MatrixMod(6)
  /\ IsTour(ant.sol, 6)

(***************************************************************************)
(* C5. When the weights from the current node to all unvisited nodes sum   *)
(* to zero, run_ant prints the diagnostic and returns the zero matrix      *)
(* (marked edges are dropped) without a panic; run_ants goes on with the   *)
(* next ant, and the iteration with grading, best tracking, pheromone      *)
(* update and on_iteration_end.                                            *)
(***************************************************************************)
InIterate == {"ant_first", "ant_loop", "grade", "find_best", "update_best",
              "pheromone_update", "iteration_end"}
AfterAnts == {"grade", "find_best", "update_best", "pheromone_update", "iteration_end"}

C5_DegenerateIsAbsorbed ==
  /\ [][(/\ pc = "ant_loop"
         /\ ant.unvisited # {}
         /\ SetSum(prob[ant.last], ant.unvisited) = 0)
        => /\ sols_m' = Append(sols_m, zeros(nrows(prob)))
           /\ diag' = diag + 1
           /\ pc' = IF Len(sols_m') < cfg.ants_num THEN "ant_first" ELSE "grade"]_vars
  /\ [](diag > 0 =>
          /\ pc \in InIterate
          /\ pc \in AfterAnts => Len(sols_m) = cfg.ants_num)
  /\ [][(diag > 0 /\ diag' = 0) => Last(probe') = Call("on_iteration_end", i)]_vars

\* the first ant took the degenerate exit, the second ant built a tour, and
\* the iteration has reached its end
C5_Witness ==
  /\ pc = "iteration_end"
  /\ diag = 1
  /\ nrows(prob) = 3
  /\ Len(sols_m) = 2
  /\ sols_m[1] = zeros(3)
  /\ IsTour(sols_m[2], 3)
  /\ Last(probe) = CallRef("on_pheromone_update")

(***************************************************************************)
(* C6. A run with cfg.iteration = 0 builds no ant, grades nothing, never   *)
(* calls the strategy, leaves pheromone and best_sol as constructed, and   *)
(* the only probe call is on_end.                                          *)
(***************************************************************************)
C6_ZeroIterations ==
  cfg.iteration = 0 =>
    /\ pc \in {"run", "done"}
    /\ pheromone = initial.pheromone
    /\ best_sol = initial.best_sol
    /\ strategy = NoCalls
    /\ prob = <<>> /\ ant = NoAnt /\ sols_m = <<>> /\ sols = <<>> /\ diag = 0
    /\ probe = IF pc = "done" THEN <<CallRef("on_end")>> ELSE <<>>

C6_Witness == cfg.iteration = 0 /\ pc = "done" /\ probe = <<CallRef("on_end")>>

(***************************************************************************)
(* C7. A run with iteration count N terminates: it makes exactly N         *)
(* iterations whatever the solutions are, then calls on_end once, after    *)
(* the last on_iteration_end, and the probe is not called after on_end.    *)
(***************************************************************************)
\* Steps of one iteration at most: on_iteration_start, run_ants' prob, per
\* ant the first node, at most n - 1 selections and the return, then
\* grade, find_best, update_best, the pheromone update and on_iteration_end.
AntSteps == nrows(cfg.weights) + 1
IterationSteps == 7 + cfg.ants_num * AntSteps

\* An upper bound of the number of steps left (0 once the run has ended).
StepsLeft ==
  LET later(k) == (cfg.iteration - i - k) * IterationSteps + 1
      ants_left == cfg.ants_num - Len(sols_m)
  IN  CASE pc = "run" -> IF i < cfg.iteration THEN later(0) ELSE 1
        [] pc = "run_ants" -> later(1) + IterationSteps - 1
        [] pc = "ant_first" -> later(1) + 5 + ants_left * AntSteps
        [] pc = "ant_loop" ->
             later(1) + 5 + (ants_left - 1) * AntSteps + Cardinality(ant.unvisited) + 1
        [] pc = "grade" -> later(1) + 5
        [] pc = "find_best" -> later(1) + 4
        [] pc = "update_best" -> later(1) + 3
        [] pc = "pheromone_update" -> later(1) + 2
        [] pc = "iteration_end" -> later(1) + 1
        [] OTHER -> 0

C7_Terminates ==
  /\ <>(pc = "done")
  /\ [][StepsLeft' < StepsLeft]_vars
  /\ [](/\ StepsLeft >= 0
        /\ \A k \in 1..Len(probe) : probe[k].ev = "on_end" => (k = Len(probe) /\ pc = "done")
        /\ pc = "done" =>
             /\ i = cfg.iteration
             /\ Count(probe, "on_iteration_start") = cfg.iteration
             /\ Count(probe, "on_iteration_end") = cfg.iteration
             /\ strategy.calls = cfg.iteration
             /\ Count(probe, "on_end") = 1
             /\ Last(probe) = CallRef("on_end")
             /\ cfg.iteration > 0 =>
                  probe[Len(probe) - 1] = Call("on_iteration_end", cfg.iteration - 1)
             /\ ~ENABLED Next)

\* a run of two iterations has ended although the first iteration already
\* found the best solution there is (cost 0)
C7_Witness ==
  /\ pc = "done"
  /\ cfg.iteration = 2
  /\ Count(probe, "on_new_best") = 1
  /\ best_sol.cost = 0
  /\ probe[3] = CallRef("on_new_best")

(***************************************************************************)
(* C8. The stored pheromone matrix is written once per iteration, by the   *)
(* step that applies the strategy, after all cfg.ants_num ants of the      *)
(* iteration have returned and their matrices have been graded; it is not  *)
(* written while ants are being built; the strategy is called once per     *)
(* iteration, with the ants_num graded solutions of that iteration.        *)
(***************************************************************************)
C8_PheromoneUpdatedOncePerIteration ==
  /\ [][IF pc = "pheromone_update"
        THEN /\ strategy'.calls = strategy.calls + 1
             /\ strategy'.pheromone = pheromone
             /\ strategy'.sols = sols
             /\ Len(sols) = cfg.ants_num
             /\ Len(sols_m) = cfg.ants_num
             /\ \A k \in 1..Len(sols) :
                  sols[k] = [matrix |-> sols_m[k], cost |-> grade_one(sols_m[k])]
             /\ pheromone' = probe_arg'.new
        ELSE /\ pheromone' = pheromone
             /\ strategy'.calls = strategy.calls]_vars
  /\ [](strategy.calls = i + (IF pc = "iteration_end" THEN 1 ELSE 0))
  /\ [](pc \in {"ant_first", "ant_loop", "grade"} => prob = from_iterator(
          nrows(pheromone), ncols(pheromone), prob_iter))

\* the second iteration's update has replaced the matrix by a different one
C8_Witness ==
  /\ pc = "iteration_end"
  /\ i = 1
  /\ strategy.calls = 2
  /\ Len(strategy.sols) = 2
  /\ pheromone # strategy.pheromone

(***************************************************************************)
(* C9. A matrix returned by the strategy with other dimensions than the    *)
(* matrix it was given is fatal at once: the run halts in that iteration,  *)
(* the matrix is not stored, and no further iteration starts.              *)
(***************************************************************************)
C9_ShapeErrorIsFatal ==
  /\ shape(probe_arg.new) # shape(probe_arg.old) =>
       pc = "panicked" /\ pheromone = probe_arg.old
  /\ shape(pheromone) = shape(initial.pheromone)

(***************************************************************************)
(* C10. grade attaches to the k-th ant's matrix M the cost                 *)
(* (sum over all entries of M[a][b] * W[a][b]) / 2, exactly.               *)
(***************************************************************************)
\* sum over all entries of M[a][b] * W[a][b]
WeightedSum(M, W) ==
  SetSum([a \in 1..nrows(M) |-> SetSum([b \in 1..ncols(M) |-> M[a][b] * W[a][b]],
                                       1..ncols(M))], 1..nrows(M))

\* A cost c in halves is WeightedSum / 2 exactly when c = WeightedSum.
C10_GradeIsHalfTheWeightedSum ==
  pc \in (AfterAnts \ {"grade"}) =>
    /\ Len(sols) = Len(sols_m)
    /\ \A k \in 1..Len(sols) :
         /\ sols[k].matrix = sols_m[k]
         /\ sols[k].cost = WeightedSum(sols_m[k], cfg.weights)

\* two ants with different matrices, one of them with the cost 9/2
C10_Witness ==
  /\ pc = "find_best"
  /\ Len(sols) = 2
  /\ sols[1].cost = 9
  /\ sols[2].cost = 0
  /\ sols[1].matrix # sols[2].matrix

(***************************************************************************)
(* C11. The weight matrix that run_ants builds has the dimensions of the   *)
(* pheromone matrix P and of the heuristic matrix H, its entry at (a, b)   *)
(* is P[a][b]^alpha * H[a][b]^beta taken from the same position of both,   *)
(* and it is never negative; an entry 0 raised to the exponent 0 counts    *)
(* as the factor 1.                                                        *)
(***************************************************************************)
\* b^e for the exponents 0, 1 and 2, with 0^0 = 1
PowerOf(b, e) == CASE e = 0 -> 1 [] e = 1 -> b [] e = 2 -> b * b

\* the positions of the engine between run_ants and the pheromone update
WeightsInUse ==
  {"ant_first", "ant_loop", "grade", "find_best", "update_best", "pheromone_update"}

C11_WeightMatrix ==
  pc \in WeightsInUse =>
    /\ shape(prob) = shape(pheromone)
    /\ shape(prob) = shape(cfg.heuristic)
    /\ \A a \in 1..nrows(prob), b \in 1..ncols(prob) :
         /\ prob[a][b] = PowerOf(pheromone[a][b], cfg.alpha)
                           * PowerOf(cfg.heuristic[a][b], cfg.beta)
         /\ prob[a][b] >= 0
         /\ (pheromone[a][b] = 0 /\ cfg.alpha = 0) =>
              prob[a][b] = PowerOf(cfg.heuristic[a][b], cfg.beta)
         /\ (cfg.heuristic[a][b] = 0 /\ cfg.beta = 0) =>
              prob[a][b] = PowerOf(pheromone[a][b], cfg.alpha)

\* the entry 2^2 * 0^0 = 4, in a matrix built from a heuristic matrix that
\* is not symmetric
C11_Witness ==
  /\ pc = "ant_first"
  /\ nrows(prob) = 3
  /\ cfg.alpha = 2
  /\ cfg.beta = 0
  /\ cfg.heuristic[1][1] = 0
  /\ cfg.heuristic[1][2] # cfg.heuristic[2][1]
  /\ pheromone[1][1] = 2
  /\ prob[1][1] = 4

(***************************************************************************)
(* C12. find_best returns a solution of the iteration whose cost is the    *)
(* least of the iteration; of several solutions with that cost it returns  *)
(* the first in the order of the population; that solution is the one      *)
(* passed to on_current_best.                                              *)
(***************************************************************************)
C12_FindBestIsFirstMinimum ==
  pc \in {"update_best", "pheromone_update", "iteration_end"} =>
    /\ \E k \in 1..Len(sols) :
         /\ best = sols[k]
         /\ \A j \in 1..Len(sols) : sols[j].cost >= sols[k].cost
         /\ \A j \in 1..(k - 1) : sols[j].cost > sols[k].cost
    /\ probe_arg.current_best = best

\* two different solutions of the same cost: the first is returned
C12_Witness ==
  /\ pc = "update_best"
  /\ Len(sols) = 2
  /\ sols[1].cost = sols[2].cost
  /\ sols[1].matrix # sols[2].matrix
  /\ best = sols[1]
  /\ probe_arg.current_best = sols[1]

(***************************************************************************)
(* C13. No step of a run changes the configuration: the iteration count,   *)
(* the number of ants, alpha, beta, the evaporation rate, the grading      *)
(* weights and the heuristic matrix stay as constructed.  Of the engine's  *)
(* fields only the pheromone matrix and the retained best change.          *)
(***************************************************************************)
C13_ConfigurationIsFrozen ==
  [][/\ cfg'.iteration = cfg.iteration
     /\ cfg'.ants_num = cfg.ants_num
     /\ cfg'.alpha = cfg.alpha
     /\ cfg'.beta = cfg.beta
     /\ cfg'.evaporation_rate = cfg.evaporation_rate
     /\ cfg'.weights = cfg.weights
     /\ cfg'.heuristic = cfg.heuristic]_vars

\* a finished run of two iterations that has changed the pheromone matrix
\* and the retained best
C13_Witness ==
  /\ pc = "done"
  /\ cfg.iteration = 2
  /\ i = 2
  /\ cfg.heuristic = MatrixAsym(3)
  /\ pheromone # initial.pheromone
  /\ best_sol # initial.best_sol

(***************************************************************************)
(* C14. The zero matrix of a degenerate ant is graded with cost 0 and      *)
(* takes part in best tracking: with grading weights that are not          *)
(* negative, an iteration with at least one degenerate ant reports a       *)
(* current best of cost 0, and a retained best of cost > 0 is replaced and *)
(* announced by on_new_best.                                               *)
(***************************************************************************)
\* the graded zero matrix of a degenerate ant
Sentinel == [matrix |-> zeros(nrows(prob)), cost |-> 0]

\* As claimed: what replaces the retained best is the sentinel.
C14_SentinelReplacesBest ==
  [][(pc = "update_best" /\ diag > 0) =>
       /\ \E k \in 1..Len(sols) : sols[k] = Sentinel
       /\ best.cost = 0
       /\ probe_arg.current_best = best
       /\ best_sol.cost > 0 =>
            /\ best_sol' = Sentinel
            /\ Appended("on_new_best")
            /\ probe_arg'.new_best = Sentinel]_vars

\* What replaces the retained best is the iteration's best, of cost 0: the
\* sentinel, unless a solution earlier in the population costs 0 as well.
C14_ZeroCostReplacesBest ==
  [][(pc = "update_best" /\ diag > 0) =>
       /\ \E k \in 1..Len(sols) :
            /\ sols[k] = Sentinel
            /\ (\A j \in 1..(k - 1) : sols[j].cost > 0) => best = Sentinel
       /\ best.cost = 0
       /\ probe_arg.current_best = best
       /\ best_sol.cost > 0 =>
            /\ best_sol' = best
            /\ Appended("on_new_best")
            /\ probe_arg'.new_best = best]_vars

\* a tour of cost 9/2, then a degenerate ant: the sentinel has replaced a
\* retained best of cost > 0
C14_Witness ==
  /\ pc = "pheromone_update"
  /\ diag = 1
  /\ Len(sols) = 2
  /\ sols[1].cost = 9
  /\ sols[2] = Sentinel
  /\ initial.best_sol.cost > 0
  /\ best_sol = Sentinel
  /\ probe_arg.current_best = Sentinel
  /\ probe_arg.new_best = Sentinel
  /\ Last(probe) = CallRef("on_new_best")

(***************************************************************************)
(* C15. The pheromone matrix from which the weights of iteration i + 1 are *)
(* built is the 'new' argument of on_pheromone_update in iteration i; the  *)
(* 'old' argument in iteration i is the matrix from which the weights of   *)
(* iteration i were built; in the first iteration 'old' is the pheromone   *)
(* matrix the engine was constructed with.                                 *)
(***************************************************************************)
\* the weight matrix built from pheromone matrix P
WeightsFrom(P) ==
  [a \in 1..nrows(P) |->
    [b \in 1..ncols(P) |-> PowerOf(P[a][b], cfg.alpha)
                            * PowerOf(cfg.heuristic[a][b], cfg.beta)]]

C15_PheromoneHandover ==
  \* the weights are built from the stored matrix
  /\ [][(pc = "run_ants" /\ pc' # "panicked") => prob' = WeightsFrom(pheromone)]_vars
  \* 'old' is the matrix the weights in use were built from, 'new' is stored
  /\ [][Appended("on_pheromone_update") =>
         /\ probe_arg'.old = pheromone
         /\ prob = WeightsFrom(probe_arg'.old)
         /\ pheromone' = probe_arg'.new]_vars
  \* and the stored matrix changes in no other step
  /\ [][~Appended("on_pheromone_update") => pheromone' = pheromone]_vars
  /\ [](i = 0 /\ pc # "iteration_end" => pheromone = initial.pheromone)

\* the second iteration has run on the matrix returned in the first one,
\* which differs from the initial one
C15_Witness ==
  /\ pc = "iteration_end"
  /\ i = 1
  /\ probe_arg.old # initial.pheromone
  /\ probe_arg.new # probe_arg.old
  /\ prob = WeightsFrom(probe_arg.old)
  /\ prob # WeightsFrom(initial.pheromone)
  /\ pheromone = probe_arg.new

(***************************************************************************)
(* C16. Every pass of run_ant's loop that draws r from [0, sum) selects a  *)
(* node of unvisited (the scan never ends without a hit, so next = last is *)
(* never used): unvisited loses exactly one node per pass, no node is      *)
(* visited twice, and one ant makes at most n - 1 selection passes.        *)
(***************************************************************************)
C16_ScanSelectsUnvisited ==
  /\ [][(pc = "ant_loop" /\ ant.state = "building" /\ ant'.state = "building") =>
         /\ ant'.last \in ant.unvisited
         /\ ant'.unvisited = ant.unvisited \ {ant'.last}
         /\ ant'.passes = ant.passes + 1]_vars
  /\ [](ant.state \in {"building", "done"} =>
         /\ ant.fallbacks = 0
         /\ ant.passes <= nrows(prob) - 1)
  /\ [](ant.state = "building" =>
         ant.passes + Cardinality(ant.unvisited) = nrows(prob) - 1)

(***************************************************************************)
(* C17. Every edge that run_ant marks in a tour it returns has a strictly  *)
(* positive transition weight, the closing edge from the last node back to *)
(* the first included: an edge of weight zero is never part of a tour.     *)
(***************************************************************************)
\* the edges marked by the selection passes
C17_SelectedEdgesArePositive ==
  [][(pc = "ant_loop" /\ ant'.state = "building") => prob[ant.last][ant'.last] > 0]_vars

\* the closing edge
C17_ClosingEdgeIsPositive ==
  [][(pc = "ant_loop" /\ ant'.state = "done") => prob[ant.last][ant.first] > 0]_vars

C17_MarkedEdgesArePositive ==
  C17_SelectedEdgesArePositive /\ C17_ClosingEdgeIsPositive

(***************************************************************************)
(* C18. After any number of completed iterations the cost of the retained  *)
(* best is the least of the initial best cost and the costs of all         *)
(* solutions graded so far: no graded solution of lower cost is missed.    *)
(* Stated by induction on the iterations: the retained best is the initial *)
(* one until the first update_best, each update_best leaves the least of   *)
(* the retained cost and the costs graded in its iteration, and no other   *)
(* step changes the retained best.                                         *)
(***************************************************************************)
MinOf(S) == CHOOSE x \in S : \A y \in S : x <= y

C18_RetainedBestIsMinimum ==
  /\ [](Count(probe, "on_current_best") = 0 => best_sol = initial.best_sol)
  /\ [][pc = "update_best" =>
         best_sol'.cost = MinOf({best_sol.cost} \cup {sols[k].cost : k \in 1..Len(sols)})]_vars
  /\ [][pc # "update_best" => best_sol' = best_sol]_vars
  /\ [](pc \in {"pheromone_update", "iteration_end"} =>
         /\ Len(sols) = cfg.ants_num
         /\ \A k \in 1..Len(sols) : sols[k].cost >= best_sol.cost)

\* The best retained in the first iteration costs less than the initial one
\* and than both solutions of the second iteration.
C18_Witness ==
  /\ pc = "iteration_end"
  /\ i = 1
  /\ Len(sols) = 2
  /\ Count(probe, "on_new_best") = 1
  /\ best_sol.cost < initial.best_sol.cost
  /\ \A k \in 1..Len(sols) : sols[k].cost > best_sol.cost

(***************************************************************************)
(* C19. StochasticUniversalSampling::apply, for a population of positive   *)
(* total fitness, a count > 0 and any start of the pointer in the closed   *)
(* range [0, total_fitness / count], selects exactly count individuals:    *)
(* its final assert_eq!(selected.len(), count) never fails.                *)
(***************************************************************************)
C19_SamplingSelectsCount ==
  (/\ sel.op = "StochasticUniversalSampling"
   /\ sel.pc \in {"returned", "panicked"}
   /\ sel.count > 0
   /\ sel.total_fitness > 0) =>
    /\ sel.pc = "returned"
    /\ Len(sel.selected) = sel.count

(***************************************************************************)
(* C20. RouletteWheel::apply returns exactly count references, each to a   *)
(* member of the population, for every population of fitness values that   *)
(* are not negative and every threshold total_fitness * u, u in [0, 1).    *)
(* (Of a population without members no reference can be returned: the     *)
(* populations meant have one member at least.)                            *)
(***************************************************************************)
C20_RouletteReturnsCount ==
  (/\ sel.op = "RouletteWheel"
   /\ sel.pc = "returned"
   /\ Len(sel.population) > 0
   /\ \A k \in 1..Len(sel.population) : sel.population[k] >= 0) =>
    /\ Len(sel.selected) = sel.count
    /\ \A k \in 1..Len(sel.selected) : sel.selected[k] \in 1..Len(sel.population)

\* With a positive total fitness it does.
C20_RouletteReturnsCountOfPositiveTotal ==
  (/\ sel.op = "RouletteWheel"
   /\ sel.pc = "returned"
   /\ sel.total_fitness > 0) =>
    /\ Len(sel.selected) = sel.count
    /\ \A k \in 1..Len(sel.selected) : sel.selected[k] \in 1..Len(sel.population)

\* With a pointer that does not start at 0 the sampling selects count (the
\* pointer has advanced by the distance once for every individual selected).
C19_SamplingSelectsCountFromPositiveStart ==
  (/\ sel.op = "StochasticUniversalSampling"
   /\ sel.pc \in {"returned", "panicked"}
   /\ sel.total_fitness > 0
   /\ sel.pointer_pos > Len(sel.selected) * sel.distance_between_pointers) =>
    /\ sel.pc = "returned"
    /\ Len(sel.selected) = sel.count

=============================================================================
